---- MODULE Spec2Model ----
(***************************************************************************)
(* Model of the tag-query parser parse_hydrus_tags of HydrusMCPServer      *)
(* (src/hydrus_mcp/functions.py, duplicated in src/functions.py).          *)
(*                                                                         *)
(* A Python str is a sequence of one-character strings.  Python values are *)
(* records named after their type, so that '' and [] stay different:       *)
(*   [str |-> s]   a str          [list |-> l]  a list of values           *)
(*   [none |-> TRUE]  None        [other |-> b] any other type, b = truthy *)
(***************************************************************************)
EXTENDS Integers, Sequences, FiniteSets, TLC

VARIABLES query, additional_tags, result, pc, case,
          request, searches, file_ids, response, step, calls,
          invocation, locals, outcome

vars == <<query, additional_tags, result, pc, case,
          request, searches, file_ids, response, step, calls,
          invocation, locals, outcome>>

----------------------------------------------------------------------------
(* Python values *)

Str(s) == [str |-> s]
Lst(l) == [list |-> l]
None == [none |-> TRUE]
Other(truthy) == [other |-> truthy]

IsStr(x) == DOMAIN x = {"str"}
IsList(x) == DOMAIN x = {"list"}
IsNone(x) == DOMAIN x = {"none"}
IsOther(x) == DOMAIN x = {"other"}

\* bool(x): None, '', [] and a falsy scalar are false
Truthy(x) ==
    IF IsStr(x) THEN x.str # <<>>
    ELSE IF IsList(x) THEN x.list # <<>>
    ELSE IF IsNone(x) THEN FALSE
    ELSE x.other

DQ == "\""
SQ == "'"
SP == " "

\* str.strip(): the whitespace of the model's alphabet is the space
RECURSIVE lstrip(_)
lstrip(s) == IF s # <<>> /\ Head(s) = SP THEN lstrip(Tail(s)) ELSE s

RECURSIVE rstrip(_)
rstrip(s) ==
    IF s # <<>> /\ s[Len(s)] = SP THEN rstrip(SubSeq(s, 1, Len(s) - 1)) ELSE s

\* only the leading whitespace removed
strip_left_only(s) == lstrip(s)

strip(s) == rstrip(lstrip(s))

startswith(s, c) == Len(s) >= 1 /\ s[1] = c
endswith(s, c) == Len(s) >= 1 /\ s[Len(s)] = c

\* s[1:-1]
Inner(s) == SubSeq(s, 2, Len(s) - 1)

\* c in s
Contains(s, c) == {i \in 1..Len(s) : s[i] = c} # {}

\* the test of lines 189-190, 246-247, 262-263, 324-325
IsQuoted(s) ==
    \/ startswith(s, DQ) /\ endswith(s, DQ)
    \/ startswith(s, SQ) /\ endswith(s, SQ)

StripQuotes(s) == IF IsQuoted(s) THEN Inner(s) ELSE s

\* a call either returns a list or raises
Return(v) == [raised |-> FALSE, value |-> v]
Raise == [raised |-> TRUE, value |-> <<>>]

\* additional_tags appended to a result (lines 207-210 and their copies)
AsList(additional) ==
    IF ~Truthy(additional) THEN <<>>
    ELSE IF IsList(additional) THEN additional.list
    ELSE <<additional>>

\* the additional tags put in front of the result instead of behind it
extend_additional_front(res, additional) == AsList(additional) \o res

extend_additional(res, additional) == res \o AsList(additional)

----------------------------------------------------------------------------
(* flat mode: split_preserving_complex_tags and the loop over its parts *)

SplitInit == [result |-> <<>>, current_part |-> <<>>, in_quotes |-> FALSE,
              quote_char |-> ""]

\* a comma inside a quoted span splits like any other comma
SplitStep_comma_first(st, char) ==
    IF char = "," /\ strip(st.current_part) # <<>>
    THEN [st EXCEPT !.result = Append(@, strip(st.current_part)),
                    !.current_part = <<>>]
    ELSE IF (char = DQ \/ char = SQ) /\ ~st.in_quotes
    THEN [st EXCEPT !.in_quotes = TRUE, !.quote_char = char,
                    !.current_part = <<char>>]
    ELSE IF st.in_quotes /\ st.quote_char # ""
    THEN IF char = st.quote_char
         THEN [st EXCEPT !.in_quotes = FALSE,
                         !.result = Append(@, Append(st.current_part, char)),
                         !.current_part = <<>>]
         ELSE [st EXCEPT !.current_part = Append(@, char)]
    ELSE IF char = "," THEN st
    ELSE [st EXCEPT !.current_part = Append(@, char)]

SplitStep(st, char) ==
    IF (char = DQ \/ char = SQ) /\ ~st.in_quotes
    THEN [st EXCEPT !.in_quotes = TRUE, !.quote_char = char,
                    !.current_part = <<char>>]
    ELSE IF st.in_quotes /\ st.quote_char # ""
    THEN IF char = st.quote_char
         THEN [st EXCEPT !.in_quotes = FALSE,
                         !.result = Append(@, Append(st.current_part, char)),
                         !.current_part = <<>>]
         ELSE [st EXCEPT !.current_part = Append(@, char)]
    ELSE IF char = "," /\ ~st.in_quotes
    THEN IF strip(st.current_part) # <<>>
         THEN [st EXCEPT !.result = Append(@, strip(st.current_part)),
                         !.current_part = <<>>]
         ELSE st
    ELSE [st EXCEPT !.current_part = Append(@, char)]

RECURSIVE SplitLoop(_, _, _)
SplitLoop(text, i, st) ==
    IF i > Len(text) THEN st ELSE SplitLoop(text, i + 1, SplitStep(st, text[i]))

split_preserving_complex_tags(text) ==
    IF text = <<>> THEN <<>>
    ELSE LET st == SplitLoop(text, 1, SplitInit)
         IN  IF strip(st.current_part) # <<>>
             THEN Append(st.result, strip(st.current_part))
             ELSE st.result

\* lines 320-329: one part of the split becomes at most one term
FlatPart(part) ==
    LET stripped == strip(part)
    IN  IF stripped = <<>> THEN <<>>
        ELSE IF IsQuoted(stripped) THEN <<Str(Inner(stripped))>>
        ELSE <<Str(stripped)>>

RECURSIVE FlatParts(_, _)
FlatParts(parts, i) ==
    IF i > Len(parts) THEN <<>> ELSE FlatPart(parts[i]) \o FlatParts(parts, i + 1)

ParseFlatString(s, additional) ==
    extend_additional(FlatParts(split_preserving_complex_tags(s), 1), additional)

----------------------------------------------------------------------------
(* bracket mode and the recursion *)

\* The depth counter of the call stack is capped: a frame deeper than MaxDepth
\* raises, as the interpreter's RecursionError does at its own (larger) limit.
MaxDepth == 8

has_or_groups(s) == Contains(s, "[") /\ Contains(s, "]")

\* the main tag keeps the whitespace around it
MainTag_untrimmed(current_tag) == Str(StripQuotes(current_tag))

\* lines 245-249 and 261-265: a main tag outside an OR group
MainTag(current_tag) == Str(StripQuotes(strip(current_tag)))

BracketInit == [tags |-> <<>>, current_tag |-> <<>>, or_group |-> FALSE,
                raised |-> FALSE]

RECURSIVE ParseFrame(_, _, _)

\* the group's terms flattened into the parent sequence
PushGroup_flat(st, depth) ==
    LET parsed_or_tags == ParseFrame(Str(st.current_tag), None, depth + 1)
    IN  IF parsed_or_tags.raised THEN [st EXCEPT !.raised = TRUE]
        ELSE [st EXCEPT !.tags = @ \o parsed_or_tags.value]

\* the group is parsed again with its brackets still around it
PushGroup_bracketed(st, depth) ==
    LET parsed_or_tags ==
            ParseFrame(Str(<<"[">> \o st.current_tag \o <<"]">>), None, depth + 1)
    IN  IF parsed_or_tags.raised THEN [st EXCEPT !.raised = TRUE]
        ELSE [st EXCEPT !.tags = Append(@, Lst(parsed_or_tags.value))]

\* lines 239-241 and 257-258: the recursive parse of a group's buffer
PushGroup(st, depth) ==
    LET parsed_or_tags == ParseFrame(Str(st.current_tag), None, depth + 1)
    IN  IF parsed_or_tags.raised THEN [st EXCEPT !.raised = TRUE]
        ELSE [st EXCEPT !.tags = Append(@, Lst(parsed_or_tags.value))]

\* the "[" that opens a group is kept in the buffer
BracketStep_keeps_bracket(st, char, depth) ==
    IF st.raised THEN st
    ELSE IF char = "[" /\ ~st.or_group
    THEN [st EXCEPT !.or_group = TRUE, !.current_tag = Append(@, char)]
    ELSE IF char = "]" /\ st.or_group
    THEN [PushGroup(st, depth) EXCEPT !.or_group = FALSE, !.current_tag = <<>>]
    ELSE IF char = "," /\ ~st.or_group
    THEN IF strip(st.current_tag) # <<>>
         THEN [st EXCEPT !.tags = Append(@, MainTag(st.current_tag)),
                         !.current_tag = <<>>]
         ELSE st
    ELSE [st EXCEPT !.current_tag = Append(@, char)]

\* lines 232-252: one character of the scan in bracket mode
BracketStep(st, char, depth) ==
    IF st.raised THEN st
    ELSE IF char = "[" /\ ~st.or_group
    THEN [st EXCEPT !.or_group = TRUE]
    ELSE IF char = "]" /\ st.or_group
    THEN [PushGroup(st, depth) EXCEPT !.or_group = FALSE, !.current_tag = <<>>]
    ELSE IF char = "," /\ ~st.or_group
    THEN IF strip(st.current_tag) # <<>>
         THEN [st EXCEPT !.tags = Append(@, MainTag(st.current_tag)),
                         !.current_tag = <<>>]
         ELSE st
    ELSE [st EXCEPT !.current_tag = Append(@, char)]

RECURSIVE BracketLoop(_, _, _, _)
BracketLoop(s, i, st, depth) ==
    IF i > Len(s) THEN st
    ELSE BracketLoop(s, i + 1, BracketStep(st, s[i], depth), depth)

\* a group still open at the end of the input is pushed as a literal
BracketEnd_literal(st, depth) ==
    IF st.raised \/ strip(st.current_tag) = <<>> THEN st
    ELSE [st EXCEPT !.tags = Append(@, MainTag(st.current_tag))]

\* lines 254-265: what is left in the buffer at the end of the input
BracketEnd(st, depth) ==
    IF st.raised \/ strip(st.current_tag) = <<>> THEN st
    ELSE IF st.or_group THEN PushGroup(st, depth)
    ELSE [st EXCEPT !.tags = Append(@, MainTag(st.current_tag))]

ParseBracketString(s, additional, depth) ==
    LET st == BracketEnd(BracketLoop(s, 1, BracketInit, depth), depth)
    IN  IF st.raised THEN Raise
        ELSE Return(extend_additional(st.tags, additional))

\* lines 182-197: a str element of a list query
RECURSIVE StripTags(_, _)
StripTags(parsed, i) ==
    IF i > Len(parsed) THEN <<>>
    ELSE <<IF IsStr(parsed[i]) THEN Str(StripQuotes(parsed[i].str)) ELSE parsed[i]>>
         \o StripTags(parsed, i + 1)

\* a nested list is always appended whole, never unwrapped
ListItem_nested(item, depth) ==
    IF IsStr(item)
    THEN LET parsed == ParseFrame(item, None, depth + 1)
         IN  IF parsed.raised THEN Raise
             ELSE Return(StripTags(parsed.value, 1))
    ELSE IF IsList(item)
    THEN LET parsed == ParseFrame(item, None, depth + 1)
         IN  IF parsed.raised THEN Raise
             ELSE Return(<<Lst(parsed.value)>>)
    ELSE Return(<<>>)

\* lines 179-204: the terms one element of a list query contributes
ListItem(item, depth) ==
    IF IsStr(item)
    THEN LET parsed == ParseFrame(item, None, depth + 1)
         IN  IF parsed.raised THEN Raise
             ELSE Return(StripTags(parsed.value, 1))
    ELSE IF IsList(item)
    THEN LET parsed == ParseFrame(item, None, depth + 1)
         IN  IF parsed.raised THEN Raise
             ELSE IF Len(parsed.value) = 1 THEN Return(<<parsed.value[1]>>)
             ELSE Return(<<Lst(parsed.value)>>)
    ELSE Return(<<>>)

RECURSIVE ListLoop(_, _, _, _)
ListLoop(items, i, acc, depth) ==
    IF i > Len(items) THEN Return(acc)
    ELSE LET r == ListItem(items[i], depth)
         IN  IF r.raised THEN Raise
             ELSE ListLoop(items, i + 1, acc \o r.value, depth)

ParseList(items, additional, depth) ==
    LET r == ListLoop(items, 1, <<>>, depth)
    IN  IF r.raised THEN Raise
        ELSE Return(extend_additional(r.value, additional))

\* the early return forgets the additional tags
EmptyQuery_bare(additional) == Return(<<>>)

\* lines 213-219: an empty query, None or "[]"
EmptyQuery(additional) == Return(extend_additional(<<>>, additional))

\* lines 338-344: a query that is neither a str nor a list
OtherQuery(additional) == Return(extend_additional(<<>>, additional))

\* the frame of one call, depth frames deep
ParseFrame(q, additional, depth) ==
    IF depth > MaxDepth THEN Raise
    ELSE IF IsList(q) THEN ParseList(q.list, additional, depth)
    ELSE IF ~Truthy(q) \/ q = Str(<<"[", "]">>) THEN EmptyQuery(additional)
    ELSE IF IsStr(q)
    THEN IF has_or_groups(q.str)
         THEN ParseBracketString(q.str, additional, depth)
         ELSE Return(ParseFlatString(q.str, additional))
    ELSE OtherQuery(additional)

parse_hydrus_tags(q, additional) == ParseFrame(q, additional, 1)

----------------------------------------------------------------------------
(* The inputs.  case records how the call's arguments were built. *)

MaxLen == 4
MaxAddLen == 3
MaxTags == 3
MaxQItems == 2
MaxNodes == 4

Alphabet == {"a", "b", SP, ",", "[", "]", DQ, SQ}

RECURSIVE Strings(_)
Strings(n) ==
    IF n = 0 THEN {<<>>}
    ELSE LET S == Strings(n - 1)
         IN  S \cup {Append(s, c) : s \in {t \in S : Len(t) = n - 1}, c \in Alphabet}

SystemInbox == <<"s", "y", "s", "t", "e", "m", ":", "i", "n", "b", "o", "x">>

\* values of additional_tags: absent, falsy, one tag, lists of tags
Additionals ==
    {None, Str(<<>>), Lst(<<>>), Str(SystemInbox), Lst(<<Str(SystemInbox)>>),
     Lst(<<Str(<<"a">>), Str(<<"b">>)>>), Lst(<<Str(<<"b">>), Str(<<"a">>)>>)}

\* plain tags: trimmed, non-empty, no comma, bracket or quote
ItemTags == {<<"a">>, <<"b">>, <<"c">>, <<"a", SP, "b">>}

RECURSIVE TagSeqs(_)
TagSeqs(n) ==
    IF n = 0 THEN {<<>>}
    ELSE {<<Str(t)>> \o r : t \in ItemTags, r \in TagSeqs(n - 1)}

\* an item holding m tags: a plain tag (m = 1) or a group of m tags
ItemsOfSize(m) ==
    {Lst(ts) : ts \in TagSeqs(m)} \cup (IF m = 1 THEN {Str(t) : t \in ItemTags} ELSE {})

RECURSIVE ItemSeqs(_)
ItemSeqs(n) ==
    IF n = 0 THEN {<<>>}
    ELSE UNION {{<<it>> \o r : it \in ItemsOfSize(m), r \in ItemSeqs(n - m)} : m \in 1..n}

RECURSIVE RenderTags(_, _, _)
RenderTags(ts, sep, pad) ==
    IF ts = <<>> THEN <<>>
    ELSE IF Len(ts) = 1 THEN pad \o Head(ts).str \o pad
    ELSE pad \o Head(ts).str \o pad \o sep \o RenderTags(Tail(ts), sep, pad)

RenderItem(it, sep, pad) ==
    IF IsStr(it) THEN pad \o it.str \o pad
    ELSE IF IsList(it) THEN pad \o <<"[">> \o RenderTags(it.list, sep, pad) \o <<"]">> \o pad
    ELSE pad \o <<it.quote>> \o it.content \o <<it.quote>> \o pad

RECURSIVE Render(_, _, _)
Render(items, sep, pad) ==
    IF items = <<>> THEN <<>>
    ELSE IF Len(items) = 1 THEN RenderItem(Head(items), sep, pad)
    ELSE RenderItem(Head(items), sep, pad) \o sep \o Render(Tail(items), sep, pad)

Seps == {<<",">>, <<",", SP>>}
Pads == {<<>>, <<SP>>}

\* a quoted span: opened and closed by quote, content without that quote
QuotedSpans ==
    {[quote |-> q, content |-> c] : q \in {DQ, SQ},
        c \in {<<>>, <<"a">>, <<",">>, <<"a", ",", "b">>, <<SP, "a", SP>>}}
    \cup {[quote |-> DQ, content |-> <<"a", SQ, "b">>], [quote |-> SQ, content |-> <<DQ>>]}

RECURSIVE QItemSeqs(_)
QItemSeqs(n) ==
    IF n = 0 THEN {<<>>}
    ELSE {<<>>} \cup {<<it>> \o r : it \in QuotedSpans \cup {Str(t) : t \in ItemTags},
                                  r \in QItemSeqs(n - 1)}

NestedContents == {<<"a">>, <<"a", "b">>, <<"n", "e", "s", "t", "e", "d">>}

\* list queries with n nodes below the root
RECURSIVE ListsOfSize(_)
ListsOfSize(n) ==
    IF n = 0 THEN {<<>>}
    ELSE UNION {
        {<<e>> \o r :
            e \in {Lst(l) : l \in ListsOfSize(m - 1)}
                  \cup (IF m = 1 THEN {Str(<<"a">>), Str(<<"b">>), Str(<<"c">>)} ELSE {}),
            r \in ListsOfSize(n - m)} : m \in 1..n}

NoCase == [kind |-> "", terms |-> <<>>, sep |-> <<>>, pad |-> <<>>]

InitFuzz ==
    /\ \E s \in Strings(MaxLen) : query = Str(s)
    /\ additional_tags = None
    /\ case = [NoCase EXCEPT !.kind = "fuzz"]

InitAppend ==
    /\ \/ \E s \in Strings(MaxAddLen) : query = Str(s)
       \/ query \in {None, Other(TRUE), Other(FALSE)}
       \/ \E l \in ListsOfSize(2) : query = Lst(l)
    /\ additional_tags \in Additionals
    /\ case = [NoCase EXCEPT !.kind = "append"]

InitItems ==
    /\ \E n \in 0..MaxTags : \E items \in ItemSeqs(n) : \E sep \in Seps : \E pad \in Pads :
          /\ query = Str(Render(items, sep, pad))
          /\ case = [kind |-> "items", terms |-> items, sep |-> sep, pad |-> pad]
    /\ additional_tags = None

InitQuoted ==
    /\ \E items \in QItemSeqs(MaxQItems) : \E sep \in Seps : \E pad \in Pads :
          /\ query = Str(Render(items, sep, pad))
          /\ case = [kind |-> "quoted", terms |-> items, sep |-> sep, pad |-> pad]
    /\ additional_tags = None

InitNested ==
    /\ \E q \in {DQ, SQ} : \E c \in NestedContents :
          /\ query = Str(<<q, q>> \o c \o <<q, q>>)
          /\ case = [NoCase EXCEPT !.kind = "nested", !.terms = <<Str(<<q>> \o c \o <<q>>)>>]
    /\ additional_tags = None

InitLists ==
    /\ \E n \in 0..MaxNodes : \E l \in ListsOfSize(n) : query = Lst(l)
    /\ additional_tags = None
    /\ case = [NoCase EXCEPT !.kind = "lists"]

\* a group inside a group: "[t1, [t2, t3]]"
InitGroups ==
    /\ \E t1 \in ItemTags : \E t2 \in ItemTags : \E t3 \in ItemTags : \E sep \in Seps :
          /\ query = Str(<<"[">> \o t1 \o sep \o <<"[">> \o t2 \o sep \o t3 \o <<"]", "]">>)
          /\ case = [kind |-> "groups", sep |-> sep, pad |-> <<>>,
                     terms |-> <<Lst(<<Str(t1), Lst(<<Str(t2), Str(t3)>>)>>)>>]
    /\ additional_tags = None

\* text, a space and then a group: "a [b, c]"
InitPrefixed ==
    /\ \E t \in ItemTags : \E n \in 1..2 : \E ts \in TagSeqs(n) : \E sep \in Seps :
          /\ query = Str(t \o <<SP, "[">> \o RenderTags(ts, sep, <<>>) \o <<"]">>)
          /\ case = [kind |-> "prefixed", sep |-> sep, pad |-> <<>>, terms |-> <<Lst(ts)>>]
    /\ additional_tags = None

\* items ending in a group whose closing bracket is missing: "[a], [b, c"
InitUnterminated ==
    /\ \E n \in 2..MaxTags : \E items \in ItemSeqs(n) : \E sep \in Seps :
          /\ Len(items) >= 2
          /\ IsList(items[Len(items)])
          /\ {i \in 1..(Len(items) - 1) : IsList(items[i])} # {}
          /\ LET s == Render(items, sep, <<>>)
             IN  query = Str(SubSeq(s, 1, Len(s) - 1))
          /\ case = [kind |-> "unterminated", sep |-> sep, pad |-> <<>>, terms |-> items]
    /\ additional_tags = None

\* quoted spans that hold a comma
CommaSpans ==
    {s \in QuotedSpans : Contains(s.content, ",")}
        \cup {[quote |-> DQ, content |-> <<"a", ",", SP, "b">>]}

\* a quoted span with a comma next to a group: '"a, b", [c, d]'
InitQuotedGroup ==
    /\ \E s \in CommaSpans : \E ts \in TagSeqs(2) : \E sep \in Seps :
       \E items \in {<<s, Lst(ts)>>, <<Lst(ts), s>>} :
          /\ query = Str(Render(items, sep, <<>>))
          /\ case = [kind |-> "quotedgroup", sep |-> sep, pad |-> <<>>,
                     terms |-> [i \in 1..2 |-> IF IsList(items[i]) THEN items[i]
                                               ELSE Str(items[i].content)]]
    /\ additional_tags = None

\* quoted spans with the other quote character nested inside
NestedQuotes == {<<DQ, SQ, "a", SQ, DQ>>, <<SQ, DQ, "a", DQ, SQ>>}

\* a query string wrapped in a one-element list: [s]
InitWrapped ==
    /\ \E s \in Strings(MaxAddLen) \cup NestedQuotes :
          /\ query = Lst(<<Str(s)>>)
          /\ case = [NoCase EXCEPT !.kind = "wrapped", !.terms = <<Str(s)>>]
    /\ additional_tags = None

\* no tool call is running
NoRequest ==
    [tool |-> "", client_name |-> <<>>, text |-> <<>>, content_type |-> <<>>,
     trs |-> <<>>, limit |-> <<>>]
NoOutcome == [kind |-> "", ids |-> <<>>]
NoResponse == [kind |-> "", error |-> "", count |-> 0, file_ids |-> <<>>]
\* no concurrent calls are running
NoCalls == <<>>

\* no helper function is being called
NoInvocation == [fn |-> ""]
NoLocals == [at |-> ""]
NoHelperCall ==
    /\ invocation = NoInvocation
    /\ locals = NoLocals
    /\ outcome = Return(<<>>)

Init ==
    /\ pc = "call"
    /\ result = Return(<<>>)
    /\ request = NoRequest
    /\ searches = <<>>
    /\ file_ids = NoOutcome
    /\ response = NoResponse
    /\ step = "idle"
    /\ calls = NoCalls
    /\ NoHelperCall
    /\ \/ InitFuzz
       \/ InitAppend
       \/ InitItems
       \/ InitQuoted
       \/ InitNested
       \/ InitLists
       \/ InitGroups
       \/ InitPrefixed
       \/ InitUnterminated
       \/ InitQuotedGroup
       \/ InitWrapped

----------------------------------------------------------------------------
(* One call of parse_hydrus_tags(query, additional_tags), by the branch taken; *)
(* pc ends at the return statement the call left through.                     *)

Finish(ret) ==
    /\ result' = parse_hydrus_tags(query, additional_tags)
    /\ pc' = ret
    /\ UNCHANGED <<query, additional_tags, case>>
    /\ UNCHANGED <<request, searches, file_ids, response, step, calls,
                   invocation, locals, outcome>>

\* line 176
CallList == pc = "call" /\ IsList(query) /\ Finish("return212")

\* line 213
CallEmpty ==
    /\ pc = "call"
    /\ ~IsList(query)
    /\ ~Truthy(query) \/ query = Str(<<"[", "]">>)
    /\ Finish("return219")

IsParsedString == IsStr(query) /\ Truthy(query) /\ query # Str(<<"[", "]">>)

\* line 225
CallBracket == pc = "call" /\ IsParsedString /\ has_or_groups(query.str) /\ Finish("return273")

\* line 274
CallFlat == pc = "call" /\ IsParsedString /\ ~has_or_groups(query.str) /\ Finish("return337")

\* line 338
CallOther == pc = "call" /\ IsOther(query) /\ Truthy(query) /\ Finish("return344")

Next == CallList \/ CallEmpty \/ CallBracket \/ CallFlat \/ CallOther

Spec == Init /\ [][Next]_vars

----------------------------------------------------------------------------
(* The tool handlers of src/hydrus_server.py that call the parser.  The     *)
(* search backend (client_obj.search_files) answers with a list of file     *)
(* ids, with a body that has no "file_ids" key, or by raising.              *)

MaxTextLen == 2
MaxTrsLen == 2
MaxFiles == 11

PreviewLen == 10
DefaultLimit == 1000
FileSortType == 13

Digits == {"0", "1", "2", "3", "4", "5", "6", "7", "8", "9"}
DigitValue ==
    ("0" :> 0) @@ ("1" :> 1) @@ ("2" :> 2) @@ ("3" :> 3) @@ ("4" :> 4) @@
    ("5" :> 5) @@ ("6" :> 6) @@ ("7" :> 7) @@ ("8" :> 8) @@ ("9" :> 9)

\* str.isdigit()
isdigit(s) == s # <<>> /\ \A i \in 1..Len(s) : s[i] \in Digits

RECURSIVE DigitsValue(_)
DigitsValue(s) ==
    IF s = <<>> THEN 0
    ELSE 10 * DigitsValue(SubSeq(s, 1, Len(s) - 1)) + DigitValue[s[Len(s)]]

\* int(s): surrounding whitespace and one minus sign are accepted, anything
\* else raises ValueError
PyInt(s) ==
    LET t == strip(s)
        neg == t # <<>> /\ t[1] = "-"
        d == IF neg THEN Tail(t) ELSE t
    IN  IF isdigit(d)
        THEN [ok |-> TRUE, value |-> IF neg THEN 0 - DigitsValue(d) ELSE DigitsValue(d)]
        ELSE [ok |-> FALSE, value |-> 0]

\* str(n) for n >= 0
RECURSIVE PyStr(_)
PyStr(n) ==
    LET d == CHOOSE c \in Digits : DigitValue[c] = n % 10
    IN  IF n < 10 THEN <<d>> ELSE Append(PyStr(n \div 10), d)

\* str.lower() on the client names of the model
lower(s) == [i \in 1..Len(s) |-> IF s[i] = "M" THEN "m" ELSE s[i]]

\* load_clients_from_secret(): the configured clients
Clients == {<<"m">>}

get_client_by_name(client_name) == \E c \in Clients : lower(c) = lower(client_name)

Error(msg) == [NoResponse EXCEPT !.kind = "error", !.error = msg]

SystemLimitIs ==
    <<"s", "y", "s", "t", "e", "m", ":", "l", "i", "m", "i", "t", " ", "i", "s", " ">>

\* appended_tag of hydrus_get_tags, without the default for an empty limit
appended_tag_no_default(limit) == SystemLimitIs \o limit

\* appended_tag of hydrus_get_tags
appended_tag(limit) ==
    SystemLimitIs \o (IF limit = <<>> THEN PyStr(DefaultLimit) ELSE limit)

\* file_ids[:10], kept whole
FirstIds_all(ids) == ids

\* file_ids[:10]
FirstIds(ids) == SubSeq(ids, 1, IF Len(ids) < PreviewLen THEN Len(ids) ELSE PreviewLen)

\* the return value of hydrus_query after the search answered with outcome o
QueryResponse(req, o) ==
    IF o.kind = "raise" THEN Error("str(e)")
    ELSE IF o.kind = "nokey" THEN [NoResponse EXCEPT !.kind = "raw"]
    ELSE LET count == Len(o.ids)
             t == PyInt(req.trs)
         IN  IF ~t.ok THEN Error("Invalid numeric parameter")
             ELSE IF t.value < count
             THEN [NoResponse EXCEPT !.kind = "found", !.count = count,
                                     !.file_ids = FirstIds(o.ids)]
             ELSE IF count = 0 THEN Error("No files found")
             ELSE [NoResponse EXCEPT !.kind = "file_ids", !.file_ids = o.ids]

\* the return value of the query branch of hydrus_get_tags after the search
\* answered with outcome o; the tags shown come from further backend reads
GetTagsResponse(req, o) ==
    IF o.kind # "ids" THEN Error("Failed to execute query")
    ELSE LET count == Len(o.ids)
             t == PyInt(req.trs)
         IN  IF ~t.ok THEN Error("Failed to execute query")
             ELSE IF t.value < count
             THEN [NoResponse EXCEPT !.kind = "summary", !.count = count]
             ELSE IF count = 0 THEN [NoResponse EXCEPT !.kind = "no_files"]
             ELSE [NoResponse EXCEPT !.kind = "tags", !.count = count, !.file_ids = o.ids]

(* The tool calls of the model *)

ClientNames == {<<>>, <<SP>>, <<"m">>, <<"M">>, <<"x">>}

\* query and content texts: every short string, and longer malformed ones
UnclosedGroup == <<"[", "a", ",", " ", "[", "b">>
UnclosedQuote == <<"a", ",", DQ, "b", ",", "c">>
Texts == Strings(MaxTextLen) \cup {UnclosedGroup, UnclosedQuote, SystemInbox}

TrsAlphabet == {"0", "1", "2", "-", SP, "x"}

RECURSIVE TrsStrings(_)
TrsStrings(n) ==
    IF n = 0 THEN {<<>>}
    ELSE LET S == TrsStrings(n - 1)
         IN  S \cup {Append(s, c) : s \in {t \in S : Len(t) = n - 1}, c \in TrsAlphabet}

DefaultTrs == <<"1", "0", "0">>
DefaultGetTagsTrs == <<"5", "0">>

Limits == {<<>>, <<SP>>, <<"5">>, PyStr(DefaultLimit)}

ContentTypes == {"query", "file_ids", "page_key", "tags"}

IdLists ==
    {[i \in 1..n |-> i] : n \in 0..MaxFiles}
        \cup {[i \in 1..n |-> n + 1 - i] : n \in 0..MaxFiles}

SearchOutcomes ==
    {[kind |-> "ids", ids |-> l] : l \in IdLists}
        \cup {[kind |-> "nokey", ids |-> <<>>], [kind |-> "raise", ids |-> <<>>]}

\* hydrus_query(client_name, query, trs)
InitQuery ==
    /\ request.tool = "hydrus_query"
    /\ request.content_type = ""
    /\ request.limit = <<>>
    /\ \/ /\ request.client_name \in ClientNames
          /\ request.text \in Texts
          /\ request.trs = DefaultTrs
       \/ /\ request.client_name = <<"m">>
          /\ request.text \in {SystemInbox, UnclosedGroup}
          /\ request.trs \in TrsStrings(MaxTrsLen)

\* hydrus_get_tags(client_name, content, content_type, trs, limit)
InitGetTags ==
    /\ request.tool = "hydrus_get_tags"
    /\ \/ /\ request.client_name \in ClientNames
          /\ request.text \in Texts
          /\ request.content_type = "query"
          /\ request.limit \in Limits
          /\ request.trs = DefaultGetTagsTrs
       \/ /\ request.client_name = <<"m">>
          /\ request.text \in {SystemInbox, UnclosedGroup}
          /\ request.content_type \in ContentTypes
          /\ request.limit \in Limits
          /\ request.trs \in TrsStrings(1) \cup {DefaultGetTagsTrs}

InitServer ==
    /\ request \in [tool : {"hydrus_query", "hydrus_get_tags"}, client_name : ClientNames,
                    text : Texts, content_type : ContentTypes \cup {""},
                    trs : TrsStrings(MaxTrsLen) \cup {DefaultTrs, DefaultGetTagsTrs},
                    limit : Limits]
    /\ InitQuery \/ InitGetTags
    /\ searches = <<>>
    /\ file_ids = NoOutcome
    /\ response = NoResponse
    /\ step = "start"
    /\ query = None
    /\ additional_tags = None
    /\ result = Return(<<>>)
    /\ pc = "idle"
    /\ case = NoCase
    /\ calls = NoCalls
    /\ NoHelperCall

Answer(r) ==
    /\ response' = r
    /\ step' = "done"

\* hydrus_query, lines 188-197: the call is refused before anything is parsed
QueryRefused ==
    /\ step = "start"
    /\ request.tool = "hydrus_query"
    /\ \/ strip(request.client_name) = <<>>
       \/ strip(request.text) = <<>>
       \/ ~get_client_by_name(request.client_name)
    /\ Answer(Error(IF strip(request.client_name) = <<>> THEN "Client name is required"
                    ELSE IF strip(request.text) = <<>> THEN "Query is required"
                    ELSE "Could not connect to client"))
    /\ UNCHANGED <<query, additional_tags, result, pc, case, request, searches, file_ids, calls,
                   invocation, locals, outcome>>

\* the handler's call tags = parse_hydrus_tags(text, additional), then
\* client_obj.search_files(tags=tags, ...) unless the parse raised
ParseAndSearch(text, additional, failure) ==
    LET parsed == parse_hydrus_tags(text, additional)
    IN  /\ query' = text
        /\ additional_tags' = additional
        /\ result' = parsed
        /\ IF parsed.raised
           THEN /\ Answer(Error(failure))
                /\ UNCHANGED searches
           ELSE /\ searches' = Append(searches, [tags |-> parsed.value,
                                                 file_sort_type |-> FileSortType])
                /\ step' = "searching"
                /\ UNCHANGED response
        /\ UNCHANGED <<pc, case, request, file_ids, calls,
                   invocation, locals, outcome>>

\* hydrus_query, lines 199-223
QuerySearch ==
    /\ step = "start"
    /\ request.tool = "hydrus_query"
    /\ strip(request.client_name) # <<>>
    /\ strip(request.text) # <<>>
    /\ get_client_by_name(request.client_name)
    /\ ParseAndSearch(Str(request.text), None, "str(e)")

\* hydrus_query, lines 225-253: the backend answers, the handler returns
QueryAnswer ==
    /\ step = "searching"
    /\ request.tool = "hydrus_query"
    /\ \E o \in SearchOutcomes :
          /\ file_ids' = o
          /\ Answer(QueryResponse(request, o))
    /\ UNCHANGED <<query, additional_tags, result, pc, case, request, searches, calls,
                   invocation, locals, outcome>>

GetTagsInvalid ==
    \/ strip(request.client_name) = <<>>
    \/ strip(request.text) = <<>>
    \/ request.content_type \notin {"file_ids", "query", "page_key"}
    \/ ~get_client_by_name(request.client_name)

\* hydrus_get_tags, lines 272-286
GetTagsRefused ==
    /\ step = "start"
    /\ request.tool = "hydrus_get_tags"
    /\ GetTagsInvalid
    /\ Answer(Error(IF strip(request.client_name) = <<>> THEN "Client name is required"
                    ELSE IF strip(request.text) = <<>> THEN "Content is required"
                    ELSE IF ~get_client_by_name(request.client_name)
                         /\ request.content_type \in {"file_ids", "query", "page_key"}
                    THEN "Could not connect to client"
                    ELSE "Invalid content_type"))
    /\ UNCHANGED <<query, additional_tags, result, pc, case, request, searches, file_ids, calls,
                   invocation, locals, outcome>>

\* hydrus_get_tags, lines 293-315
GetTagsSearch ==
    /\ step = "start"
    /\ request.tool = "hydrus_get_tags"
    /\ ~GetTagsInvalid
    /\ request.content_type = "query"
    /\ ParseAndSearch(Str(request.text), Str(appended_tag(request.limit)),
                      "Failed to execute query")

\* hydrus_get_tags, lines 317-345 and 391-411
GetTagsAnswer ==
    /\ step = "searching"
    /\ request.tool = "hydrus_get_tags"
    /\ \E o \in SearchOutcomes :
          /\ file_ids' = o
          /\ Answer(GetTagsResponse(request, o))
    /\ UNCHANGED <<query, additional_tags, result, pc, case, request, searches, calls,
                   invocation, locals, outcome>>

\* hydrus_get_tags, lines 346-411: file ids taken from a page or from the
\* content itself; no search is made and the parser is not called
GetTagsNoSearch ==
    /\ step = "start"
    /\ request.tool = "hydrus_get_tags"
    /\ ~GetTagsInvalid
    /\ request.content_type \in {"file_ids", "page_key"}
    /\ Answer([NoResponse EXCEPT !.kind = request.content_type])
    /\ UNCHANGED <<query, additional_tags, result, pc, case, request, searches, file_ids, calls,
                   invocation, locals, outcome>>

NextServer ==
    \/ QueryRefused
    \/ QuerySearch
    \/ QueryAnswer
    \/ GetTagsRefused
    \/ GetTagsSearch
    \/ GetTagsAnswer
    \/ GetTagsNoSearch

SpecServer == InitServer /\ [][NextServer]_vars

----------------------------------------------------------------------------
(* Two calls of parse_hydrus_tags running at once.  Each call owns a stack   *)
(* of frames, one per active invocation; a step of a call is one iteration   *)
(* of the loop its top frame is in, or a call or a return.  The loop bodies  *)
(* are the ones of the functional definition above; a recursive call pushes  *)
(* a frame where ParseFrame is applied there.                                *)

MaxCallLen == 3

Threads == {1, 2}

\* the locals of one invocation; phase is the statement it is at
Frame(q, additional) ==
    [phase |-> "entry", query |-> q, additional |-> additional, i |-> 1,
     st |-> BracketInit, acc |-> <<>>, value |-> <<>>]

Top(c) == c.stack[Len(c.stack)]

\* the top frame replaced by f
SetTop(c, f) == [c EXCEPT !.stack = [@ EXCEPT ![Len(@)] = f]]

\* a write by one call lands in the frames of every call that is running
Store_shared(cs, t, c) ==
    [u \in DOMAIN cs |->
        IF u = t THEN c
        ELSE IF cs[u].stack = <<>> THEN cs[u]
        ELSE [cs[u] EXCEPT !.stack = c.stack]]

\* every assignment of the function is to a local of the running invocation
Store(cs, t, c) == [cs EXCEPT ![t] = c]

\* a step of call t taken while the other call is in the middle of its run
Overlaps(cs, t) == \E u \in DOMAIN cs : u # t /\ cs[u].pc = "running"

\* the recursive call parse_hydrus_tags(q) made by the top frame, which stays
\* at phase wait until the callee returns
PushFrame(c, wait, q) ==
    IF Len(c.stack) >= MaxDepth
    THEN [c EXCEPT !.stack = <<>>, !.result = Raise, !.pc = "done"]
    ELSE [c EXCEPT !.stack = Append([@ EXCEPT ![Len(@)].phase = wait], Frame(q, None))]

\* the top frame reaches its return statement with value v
ReturnValue(c, v) == SetTop(c, [Top(c) EXCEPT !.phase = "return", !.value = v])

Running(t) == calls[t].pc # "done" /\ calls[t].stack # <<>>

Step(t, c) ==
    /\ calls' = Store(calls, t, [c EXCEPT !.pc = IF @ = "done" THEN @ ELSE "running",
                                           !.overlapped = @ \/ Overlaps(calls, t)])
    /\ UNCHANGED <<query, additional_tags, result, pc, case,
                   request, searches, file_ids, response, step,
                   invocation, locals, outcome>>

\* lines 176, 213, 221-225, 338: the branch is chosen; an empty or non-string
\* query returns at once
Enter(t) ==
    /\ Running(t)
    /\ Top(calls[t]).phase = "entry"
    /\ LET c == calls[t]
           f == Top(c)
           q == f.query
       IN  Step(t,
              IF IsList(q) THEN SetTop(c, [f EXCEPT !.phase = "list"])
              ELSE IF ~Truthy(q) \/ q = Str(<<"[", "]">>)
              THEN ReturnValue(c, EmptyQuery(f.additional).value)
              ELSE IF IsStr(q)
              THEN IF has_or_groups(q.str)
                   THEN SetTop(c, [f EXCEPT !.phase = "bracket", !.st = BracketInit])
                   ELSE SetTop(c, [f EXCEPT !.phase = "flat", !.st = SplitInit])
              ELSE ReturnValue(c, OtherQuery(f.additional).value))

\* lines 179-204: one element of a list query; a str or a list is parsed by
\* a recursive call, anything else is dropped
ListScan(t) ==
    /\ Running(t)
    /\ Top(calls[t]).phase = "list"
    /\ Top(calls[t]).i <= Len(Top(calls[t]).query.list)
    /\ LET c == calls[t]
           f == Top(c)
           item == f.query.list[f.i]
       IN  Step(t, IF IsStr(item) \/ IsList(item) THEN PushFrame(c, "list", item)
                   ELSE SetTop(c, [f EXCEPT !.i = @ + 1]))

\* lines 206-212
ListEnd(t) ==
    /\ Running(t)
    /\ Top(calls[t]).phase = "list"
    /\ Top(calls[t]).i > Len(Top(calls[t]).query.list)
    /\ LET f == Top(calls[t])
       IN  Step(t, ReturnValue(calls[t], extend_additional(f.acc, f.additional)))

\* lines 232-252: one character of the bracket-mode scan; a "]" that closes a
\* group parses the buffer by a recursive call
BracketScan(t) ==
    /\ Running(t)
    /\ Top(calls[t]).phase = "bracket"
    /\ Top(calls[t]).i <= Len(Top(calls[t]).query.str)
    /\ LET c == calls[t]
           f == Top(c)
           char == f.query.str[f.i]
       IN  Step(t, IF char = "]" /\ f.st.or_group
                   THEN PushFrame(c, "bracket", Str(f.st.current_tag))
                   ELSE SetTop(c, [f EXCEPT !.st = BracketStep(@, char, Len(c.stack)),
                                            !.i = @ + 1]))

\* lines 254-273: the end of the bracket-mode scan; an open group with a
\* non-blank buffer is parsed by a recursive call
BracketTail(t) ==
    /\ Running(t)
    /\ Top(calls[t]).phase = "bracket"
    /\ Top(calls[t]).i > Len(Top(calls[t]).query.str)
    /\ LET c == calls[t]
           f == Top(c)
       IN  Step(t, IF strip(f.st.current_tag) # <<>> /\ f.st.or_group
                   THEN PushFrame(c, "tail", Str(f.st.current_tag))
                   ELSE ReturnValue(c, extend_additional(BracketEnd(f.st, Len(c.stack)).tags,
                                                         f.additional)))

\* lines 286-309: one character of the flat-mode split
FlatScan(t) ==
    /\ Running(t)
    /\ Top(calls[t]).phase = "flat"
    /\ Top(calls[t]).i <= Len(Top(calls[t]).query.str)
    /\ LET f == Top(calls[t])
       IN  Step(t, SetTop(calls[t], [f EXCEPT !.st = SplitStep(@, f.query.str[f.i]),
                                              !.i = @ + 1]))

\* lines 311-337: the last part, the loop over the parts, the return
FlatEnd(t) ==
    /\ Running(t)
    /\ Top(calls[t]).phase = "flat"
    /\ Top(calls[t]).i > Len(Top(calls[t]).query.str)
    /\ LET f == Top(calls[t])
           parts == IF strip(f.st.current_part) # <<>>
                    THEN Append(f.st.result, strip(f.st.current_part))
                    ELSE f.st.result
       IN  Step(t, ReturnValue(calls[t],
                               extend_additional(FlatParts(parts, 1), f.additional)))

\* what the caller's frame p does with the value v of the call it waited for:
\* lines 182-204 in the list loop, 239-243 in the scan, 257-258 at its end
Resume(p, v) ==
    IF p.phase = "list"
    THEN [p EXCEPT !.acc = @ \o (IF IsStr(p.query.list[p.i]) THEN StripTags(v, 1)
                                 ELSE IF Len(v) = 1 THEN <<v[1]>>
                                 ELSE <<Lst(v)>>),
                   !.i = @ + 1]
    ELSE IF p.phase = "bracket"
    THEN [p EXCEPT !.st = [@ EXCEPT !.tags = Append(@, Lst(v)), !.or_group = FALSE,
                                    !.current_tag = <<>>],
                   !.i = @ + 1]
    ELSE [p EXCEPT !.phase = "return",
                   !.value = extend_additional(Append(p.st.tags, Lst(v)), p.additional)]

\* a return statement of a recursive call
ReturnToFrame(t) ==
    /\ Running(t)
    /\ Top(calls[t]).phase = "return"
    /\ Len(calls[t].stack) > 1
    /\ LET c == calls[t]
           n == Len(c.stack)
       IN  Step(t, [c EXCEPT !.stack = Append(SubSeq(@, 1, n - 2),
                                              Resume(c.stack[n - 1], Top(c).value))])

\* the return statement of the call itself
ReturnToCaller(t) ==
    /\ Running(t)
    /\ Top(calls[t]).phase = "return"
    /\ Len(calls[t].stack) = 1
    /\ Step(t, [calls[t] EXCEPT !.stack = <<>>, !.result = Return(Top(calls[t]).value),
                                !.pc = "done"])

(* The arguments of the two calls *)

CallAlphabet == {"a", ",", "[", "]"}

RECURSIVE CallStrings(_)
CallStrings(n) ==
    IF n = 0 THEN {<<>>}
    ELSE LET S == CallStrings(n - 1)
         IN  S \cup {Append(s, c) : s \in {t \in S : Len(t) = n - 1}, c \in CallAlphabet}

GroupThenOpen == <<"[", "a", "]", ",", "[", "b", ",", "c">>
QuotedComma == <<DQ, "a", ",", "b", DQ, ",", "c">>
MixedList == Lst(<<Str(<<"a", ",", "b">>), Lst(<<Str(<<"[", "c", "]">>), Other(TRUE)>>)>>)

\* the first call is given every short string without quotes and a few other
\* queries, the second a few longer queries
Queries1 ==
    {Str(s) : s \in CallStrings(MaxCallLen)} \cup {Str(QuotedComma), MixedList, None}
Queries2 == {Str(GroupThenOpen), Str(QuotedComma), MixedList}
SharedAdditionals == {None, Lst(<<Str(SystemInbox)>>)}

NewCall(q, additional) ==
    [query |-> q, additional_tags |-> additional, stack |-> <<Frame(q, additional)>>,
     result |-> Return(<<>>), pc |-> "call", overlapped |-> FALSE]

\* both calls are passed the same additional_tags object
InitConcurrent ==
    /\ \E q1 \in Queries1 : \E q2 \in Queries2 : \E additional \in SharedAdditionals :
          calls = <<NewCall(q1, additional), NewCall(q2, additional)>>
    /\ query = None
    /\ additional_tags = None
    /\ result = Return(<<>>)
    /\ pc = "idle"
    /\ case = NoCase
    /\ request = NoRequest
    /\ searches = <<>>
    /\ file_ids = NoOutcome
    /\ response = NoResponse
    /\ step = "idle"
    /\ NoHelperCall

NextConcurrent ==
    \E t \in DOMAIN calls :
        \/ Enter(t)
        \/ ListScan(t)
        \/ ListEnd(t)
        \/ BracketScan(t)
        \/ BracketTail(t)
        \/ FlatScan(t)
        \/ FlatEnd(t)
        \/ ReturnToFrame(t)
        \/ ReturnToCaller(t)

SpecConcurrent == InitConcurrent /\ [][NextConcurrent]_vars

----------------------------------------------------------------------------
(* One call of parse_hydrus_tags, stepped through its frames as above.  The  *)
(* interpreter always runs the next statement of a call in progress, hence   *)
(* the fairness condition.                                                   *)

MaxScanLen == 5
MaxNest == 4

RECURSIVE Repeat(_, _)
Repeat(c, n) == IF n = 0 THEN <<>> ELSE Append(Repeat(c, n - 1), c)

\* "]]..[[..": every frame leaves a group open over the whole rest of its input
OpenGroups(k) == Repeat("]", k) \o Repeat("[", k)

ScanQueries ==
    {Str(s) : s \in CallStrings(MaxScanLen)}
        \cup {Str(OpenGroups(k)) : k \in 1..MaxNest}
        \cup {Str(GroupThenOpen), Str(QuotedComma), MixedList}

InitScan ==
    /\ \E q \in ScanQueries : calls = <<NewCall(q, None)>>
    /\ query = None
    /\ additional_tags = None
    /\ result = Return(<<>>)
    /\ pc = "idle"
    /\ case = NoCase
    /\ request = NoRequest
    /\ searches = <<>>
    /\ file_ids = NoOutcome
    /\ response = NoResponse
    /\ step = "idle"
    /\ NoHelperCall

SpecScan == InitScan /\ [][NextConcurrent]_vars /\ WF_vars(NextConcurrent)

----------------------------------------------------------------------------
(* The helper functions of src/hydrus_mcp/functions.py.  invocation holds    *)
(* the function called and its arguments, locals the function's local        *)
(* variables while it runs, outcome what it returned or that it raised.      *)

(* find_page_by_name.  A page dictionary is a record of the keys it may      *)
(* hold, an absent key being None; page_key stands for every other key.  An  *)
(* entry of a page list that is no dictionary is a str or a number.          *)

MaxPages == 3

Page(name, title, pages, page_key) ==
    [name |-> name, title |-> title, pages |-> pages, page_key |-> page_key]

IsDict(x) == "page_key" \in DOMAIN x

\* bool(page): a dictionary without any key is false
PageTruthy(page) ==
    page.name # None \/ page.title # None \/ page.pages # None \/ page.page_key

\* page_info.get(key, ''), lines 362-363
GetOrEmpty(v) == IF v = None THEN <<>> ELSE v.str

\* line 370: if nested_page
NestedFound(nested_page) == nested_page # None /\ PageTruthy(nested_page)

\* line 365
PageMatches(page_info, tab_name) ==
    \/ lower(tab_name) = lower(GetOrEmpty(page_info.name))
    \/ lower(tab_name) = lower(GetOrEmpty(page_info.title))

\* the loop of find_page_by_name from entry i on
RECURSIVE FindFrom(_, _, _)
FindFrom(pages_list, i, tab_name) ==
    IF i > Len(pages_list) THEN None
    ELSE LET page_info == pages_list[i]
         IN  IF ~IsDict(page_info) THEN FindFrom(pages_list, i + 1, tab_name)
             ELSE IF PageMatches(page_info, tab_name) THEN page_info
             ELSE IF page_info.pages # None
             THEN LET nested_page == FindFrom(page_info.pages.list, 1, tab_name)
                  IN  IF NestedFound(nested_page) THEN nested_page
                      ELSE FindFrom(pages_list, i + 1, tab_name)
             ELSE FindFrom(pages_list, i + 1, tab_name)

find_page_by_name(pages_list, tab_name) == FindFrom(pages_list, 1, tab_name)

(* page trees and tab names of the model *)

TabNames == {<<>>, <<"m">>, <<"M">>}

\* the keys of a page apart from pages: none at all, a name, a name in the
\* other case, a name and a title, a name that matches nothing
PageKeys ==
    {<<None, None, FALSE>>, <<Str(<<"m">>), None, TRUE>>, <<Str(<<"M">>), None, TRUE>>,
     <<Str(<<"x">>), Str(<<"m">>), TRUE>>, <<Str(<<"x">>), Str(<<"y">>), TRUE>>}

NotADict == {Str(<<"m">>)}

\* page lists with n entries in all, nested ones included
RECURSIVE PageLists(_)
PageLists(n) ==
    IF n = 0 THEN {<<>>}
    ELSE UNION {
        {<<e>> \o r :
            e \in {Page(k[1], k[2], Lst(sub), k[3]) : k \in PageKeys, sub \in PageLists(m - 1)}
                  \cup (IF m = 1 THEN {Page(k[1], k[2], None, k[3]) : k \in PageKeys}
                                      \cup NotADict
                        ELSE {}),
            r \in PageLists(n - m)} : m \in 1..n}

InitFindPage ==
    /\ \E n \in 0..MaxPages : \E pages_list \in PageLists(n) : \E tab_name \in TabNames :
          invocation = [fn |-> "find_page_by_name", pages_list |-> pages_list,
                        tab_name |-> tab_name]
    /\ locals = [at |-> "call"]
    /\ outcome = Return(<<>>)

OthersIdle ==
    /\ query = None
    /\ additional_tags = None
    /\ result = Return(<<>>)
    /\ pc = "idle"
    /\ case = NoCase
    /\ request = NoRequest
    /\ searches = <<>>
    /\ file_ids = NoOutcome
    /\ response = NoResponse
    /\ step = "idle"
    /\ calls = NoCalls

OthersUnchanged ==
    UNCHANGED <<query, additional_tags, result, pc, case,
                request, searches, file_ids, response, step, calls>>

\* find_page_by_name(pages_list, tab_name), lines 347-373
FindPage ==
    /\ invocation.fn = "find_page_by_name"
    /\ locals.at = "call"
    /\ outcome' = Return(find_page_by_name(invocation.pages_list, invocation.tab_name))
    /\ locals' = [at |-> "done"]
    /\ UNCHANGED invocation
    /\ OthersUnchanged

(* load_clients_from_secret.  The configuration is the environment variable  *)
(* HYDRUS_CLIENTS: unset, a text that is no JSON, or the text of a JSON      *)
(* value.  A JSON object is the record of its keys, null is None, a number   *)
(* is Other(TRUE).                                                           *)

MaxEntries == 2
MaxFields == 4

Obj(keys) == [keys |-> keys]
IsObj(x) == DOMAIN x = {"keys"}

Unset == [kind |-> "unset", json |-> None]
NotJson == [kind |-> "text", json |-> None]
Json(v) == [kind |-> "json", json |-> v]

\* json.loads(os.environ.get("HYDRUS_CLIENTS", "[]").strip()), lines 13 and 16
json_loads(config) ==
    IF config.kind = "unset" THEN Return(Lst(<<>>))
    ELSE IF config.kind = "text" THEN Raise
    ELSE Return(config.json)

\* len(v) is defined
HasLen(v) == IsStr(v) \/ IsList(v) \/ IsObj(v)

\* what iterating or indexing v goes through: the characters of a str, the
\* elements of a list, the keys of an object
Elements(v) ==
    IF IsStr(v) THEN [i \in 1..Len(v.str) |-> Str(<<v.str[i]>>)]
    ELSE IF IsList(v) THEN v.list
    ELSE [i \in 1..Len(v.keys) |-> Str(v.keys[i])]

\* lines 23-33
ClientRecord(client) ==
    LET e == Elements(client)
    IN  [name |-> e[1], url |-> e[2], apikey |-> e[3],
         description |-> IF Len(e) > 3 THEN e[4] ELSE Str(<<>>)]

\* lines 17 and 20-35: len() of a value without a length raises TypeError, which is
\* caught and gives []; an object indexed by 0 raises KeyError, which is not
RECURSIVE LoadLoop(_, _, _)
LoadLoop(clients, i, valid_clients) ==
    IF i > Len(clients) THEN Return(valid_clients)
    ELSE LET client == clients[i]
         IN  IF ~HasLen(client) THEN Return(<<>>)
             ELSE IF Len(Elements(client)) >= 3
             THEN IF IsObj(client) THEN Raise
                  ELSE LoadLoop(clients, i + 1, Append(valid_clients, ClientRecord(client)))
             ELSE LoadLoop(clients, i + 1, valid_clients)

load_clients_from_secret(config) ==
    LET clients == json_loads(config)
    IN  IF clients.raised THEN Return(<<>>)
        ELSE IF ~HasLen(clients.value) THEN Return(<<>>)
        ELSE LoadLoop(Elements(clients.value), 1, <<>>)

(* configurations of the model *)

FieldNames == <<"u", "k", "d", "e", "f">>

\* a client entry with n fields whose name is c
ListEntry(c, n) == Lst([i \in 1..n |-> IF i = 1 THEN Str(<<c>>) ELSE Str(<<FieldNames[i - 1]>>)])

ObjectKeys == <<<<"n", "a", "m", "e">>, <<"u", "r", "l">>, <<"a", "p", "i", "k", "e", "y">>>>

Entries ==
    {ListEntry(c, n) : c \in {"a", "b"}, n \in 0..MaxFields}
        \cup {None, Other(TRUE), Str(<<"a", "b">>), Str(<<"a", "b", "c", "d">>)}
        \cup {Obj(SubSeq(ObjectKeys, 1, n)) : n \in {0, 2, 3}}

RECURSIVE EntryLists(_)
EntryLists(n) ==
    IF n = 0 THEN {<<>>}
    ELSE EntryLists(n - 1)
            \cup {Append(l, e) : l \in {k \in EntryLists(n - 1) : Len(k) = n - 1}, e \in Entries}

Configs ==
    {Unset, NotJson, Json(None), Json(Other(TRUE)), Json(Str(<<"a", "b", "c", "d">>)),
     Json(Obj(ObjectKeys))}
        \cup {Json(Lst(l)) : l \in EntryLists(MaxEntries)}

InitLoadClients ==
    /\ \E config \in Configs : invocation = [fn |-> "load_clients_from_secret", config |-> config]
    /\ locals = [at |-> "call"]
    /\ outcome = Return(<<>>)

\* load_clients_from_secret(), lines 7-39
LoadClients ==
    /\ invocation.fn = "load_clients_from_secret"
    /\ locals.at = "call"
    /\ outcome' = load_clients_from_secret(invocation.config)
    /\ locals' = [at |-> "done"]
    /\ UNCHANGED invocation
    /\ OthersUnchanged

(* get_tags and get_tags_summary.  client_obj.get_file_metadata answers a     *)
(* batch with a dictionary of top_level_keys keys, one of them "metadata"     *)
(* with one entry per file id asked for, or raises.  A tag is a record, of    *)
(* being the file id a text was built from.                                   *)

MaxKeys == 4
MaxIds == 5

batch_size == 3

Tag(text, of) == [tag |-> text, of |-> of]

IndexError == Tag("Error processing file: list index out of range", 0)
RequestError == Tag("Error processing file: str(e)", 0)

\* metadata[y]["tags"][tag_service_key]["storage_tags"]["0"] of a file: every
\* file but each fifth carries common, the even ones carry even as well
FileTags(file_id) ==
    IF file_id % 5 = 0 THEN <<>>
    ELSE IF file_id % 2 = 0 THEN <<Tag("common", 0), Tag("even", 0)>>
    ELSE <<Tag("common", 0)>>

\* file_ids[i:i + batch_size], i counted from 0
Batch(ids, i) ==
    SubSeq(ids, i + 1, IF i + batch_size < Len(ids) THEN i + batch_size ELSE Len(ids))

Entry(file_id, tags) == [file_id |-> file_id, tags |-> tags]

\* get_tags lines 95-103: y runs over range(len(a)), the number of top-level
\* keys of the answer; batch_file_ids[y] past the batch raises IndexError, which
\* ends the loop in the handler of lines 104-109, where every file id of the
\* batch is found in MyDict already
BatchEntries(batch_file_ids, len_a) ==
    LET n == IF len_a < Len(batch_file_ids) THEN len_a ELSE Len(batch_file_ids)
    IN  [y \in 1..n |-> Entry(batch_file_ids[y], FileTags(batch_file_ids[y]))]

\* get_tags lines 104-109: the request failed
RECURSIVE ErrorEntries(_, _)
ErrorEntries(batch_file_ids, MyDict) ==
    IF batch_file_ids = <<>> THEN MyDict
    ELSE ErrorEntries(Tail(batch_file_ids),
            IF {k \in 1..Len(MyDict) : MyDict[k].file_id = Head(batch_file_ids)} # {}
            THEN MyDict
            ELSE Append(MyDict, Entry(Head(batch_file_ids), <<RequestError>>)))

\* tag_counts[tag] += 1, tag_counts being kept in insertion order
Count(tag_counts, tag) ==
    IF {k \in 1..Len(tag_counts) : tag_counts[k].tag = tag} # {}
    THEN [k \in 1..Len(tag_counts) |->
            IF tag_counts[k].tag = tag
            THEN [tag_counts[k] EXCEPT !.count = @ + 1] ELSE tag_counts[k]]
    ELSE Append(tag_counts, [tag |-> tag, count |-> 1])

RECURSIVE CountAll(_, _)
CountAll(tag_counts, tags) ==
    IF tags = <<>> THEN tag_counts
    ELSE CountAll(Count(tag_counts, Head(tags)), Tail(tags))

\* get_tags_summary lines 130-142: y runs over range(len(a)); metadata[y] past
\* the batch raises inside the inner try and its error text is counted as a tag
RECURSIVE SummaryBatch(_, _, _, _)
SummaryBatch(tag_counts, batch_file_ids, y, len_a) ==
    IF y > len_a THEN tag_counts
    ELSE SummaryBatch(
            CountAll(tag_counts, IF y <= Len(batch_file_ids) THEN FileTags(batch_file_ids[y])
                                 ELSE <<IndexError>>),
            batch_file_ids, y + 1, len_a)

\* get_tags_summary lines 143-148: the request failed; no key of tag_counts
\* starts with a file id, so every file id of the batch gets its own error key
RECURSIVE SummaryErrors(_, _)
SummaryErrors(tag_counts, batch_file_ids) ==
    IF batch_file_ids = <<>> THEN tag_counts
    ELSE SummaryErrors(
            LET key == Tag("Error processing file", Head(batch_file_ids))
                at == {k \in 1..Len(tag_counts) : tag_counts[k].tag = key}
            IN  IF at = {} THEN Append(tag_counts, [tag |-> key, count |-> 1])
                ELSE [k \in 1..Len(tag_counts) |->
                        IF k \in at THEN [tag_counts[k] EXCEPT !.count = 1] ELSE tag_counts[k]],
            Tail(batch_file_ids))

\* list.sort(key=count, reverse=True): stable, by insertion
RECURSIVE InsertByCount(_, _)
InsertByCount(sorted, pair) ==
    IF sorted = <<>> THEN <<pair>>
    ELSE IF Head(sorted).count >= pair.count
    THEN <<Head(sorted)>> \o InsertByCount(Tail(sorted), pair)
    ELSE <<pair>> \o sorted

RECURSIVE SortByCount(_)
SortByCount(pairs) ==
    IF pairs = <<>> THEN <<>>
    ELSE InsertByCount(SortByCount(SubSeq(pairs, 1, Len(pairs) - 1)), pairs[Len(pairs)])

NoLimit == [given |-> FALSE, value |-> 0]
Limit(n) == [given |-> TRUE, value |-> n]

\* get_tags_summary lines 150-167
SummaryResult(tag_counts, result_limit) ==
    LET sorted == SortByCount(tag_counts)
    IN  IF result_limit.given /\ result_limit.value > 0 /\ Len(sorted) > result_limit.value
        THEN SubSeq(sorted, 1, result_limit.value)
        ELSE sorted

TagIdLists ==
    {[k \in 1..n |-> k] : n \in 0..MaxIds} \cup {[k \in 1..n |-> n + 1 - k] : n \in 0..MaxIds}

ResultLimits == {NoLimit} \cup {Limit(n) : n \in 0..2}

InitTags ==
    /\ \E ids \in TagIdLists : \E len_a \in 1..MaxKeys :
          invocation = [fn |-> "get_tags", file_ids |-> ids, top_level_keys |-> len_a]
    /\ locals = [at |-> "batch", i |-> 0, MyDict |-> <<>>, failed |-> {}]
    /\ outcome = Return(<<>>)

InitTagsSummary ==
    /\ \E ids \in TagIdLists : \E len_a \in 1..MaxKeys : \E result_limit \in ResultLimits :
          invocation = [fn |-> "get_tags_summary", file_ids |-> ids, top_level_keys |-> len_a,
                        result_limit |-> result_limit]
    /\ locals = [at |-> "batch", i |-> 0, tag_counts |-> <<>>, failed |-> {}]
    /\ outcome = Return(<<>>)

\* get_tags lines 87-103: one round of the batch loop, the request answered;
\* failed records the batches whose request raised
TagsBatch ==
    /\ invocation.fn = "get_tags"
    /\ locals.at = "batch"
    /\ locals.i < Len(invocation.file_ids)
    /\ locals' = [locals EXCEPT
                    !.MyDict = @ \o BatchEntries(Batch(invocation.file_ids, locals.i),
                                                 invocation.top_level_keys),
                    !.i = @ + batch_size]
    /\ UNCHANGED <<invocation, outcome>>
    /\ OthersUnchanged

\* get_tags lines 87-93 and 104-109: one round of the batch loop, the request raising
TagsBatchFails ==
    /\ invocation.fn = "get_tags"
    /\ locals.at = "batch"
    /\ locals.i < Len(invocation.file_ids)
    /\ locals' = [locals EXCEPT
                    !.MyDict = ErrorEntries(Batch(invocation.file_ids, locals.i), @),
                    !.failed = @ \cup {locals.i},
                    !.i = @ + batch_size]
    /\ UNCHANGED <<invocation, outcome>>
    /\ OthersUnchanged

\* get_tags line 111
TagsReturn ==
    /\ invocation.fn = "get_tags"
    /\ locals.at = "batch"
    /\ locals.i >= Len(invocation.file_ids)
    /\ outcome' = Return(locals.MyDict)
    /\ locals' = [locals EXCEPT !.at = "done"]
    /\ UNCHANGED invocation
    /\ OthersUnchanged

\* get_tags_summary lines 125-146: one round of the batch loop, the request answered
CountBatch ==
    /\ invocation.fn = "get_tags_summary"
    /\ locals.at = "batch"
    /\ locals.i < Len(invocation.file_ids)
    /\ locals' = [locals EXCEPT
                    !.tag_counts = SummaryBatch(@, Batch(invocation.file_ids, locals.i), 1,
                                                invocation.top_level_keys),
                    !.i = @ + batch_size]
    /\ UNCHANGED <<invocation, outcome>>
    /\ OthersUnchanged

\* get_tags_summary lines 125-131 and 147-152: the request raising
CountBatchFails ==
    /\ invocation.fn = "get_tags_summary"
    /\ locals.at = "batch"
    /\ locals.i < Len(invocation.file_ids)
    /\ locals' = [locals EXCEPT
                    !.tag_counts = SummaryErrors(@, Batch(invocation.file_ids, locals.i)),
                    !.failed = @ \cup {locals.i},
                    !.i = @ + batch_size]
    /\ UNCHANGED <<invocation, outcome>>
    /\ OthersUnchanged

\* get_tags_summary lines 154-167
SummaryReturn ==
    /\ invocation.fn = "get_tags_summary"
    /\ locals.at = "batch"
    /\ locals.i >= Len(invocation.file_ids)
    /\ outcome' = Return(SummaryResult(locals.tag_counts, invocation.result_limit))
    /\ locals' = [locals EXCEPT !.at = "done"]
    /\ UNCHANGED invocation
    /\ OthersUnchanged

InitHelpers ==
    /\ OthersIdle
    /\ \/ InitFindPage
       \/ InitLoadClients
       \/ InitTags
       \/ InitTagsSummary

NextHelpers ==
    \/ FindPage
    \/ LoadClients
    \/ TagsBatch
    \/ TagsBatchFails
    \/ TagsReturn
    \/ CountBatch
    \/ CountBatchFails
    \/ SummaryReturn

SpecHelpers == InitHelpers /\ [][NextHelpers]_vars

----------------------------------------------------------------------------
(* Properties *)

Done == pc # "call"

\* tag occurs in value v, at any depth
RECURSIVE Mentions(_, _)
Mentions(v, tag) ==
    IF IsList(v) THEN \E i \in 1..Len(v.list) : Mentions(v.list[i], tag)
    ELSE v = tag

\* C1: with non-empty additional tags the result is the parse of the same query
\* without additional tags followed by the additional tags in their given order
\* (one non-list tag counting as a one-element sequence); the appended tag occurs
\* once at the top level and in no OR-group.
C1_AdditionalTagsLast ==
    (Done /\ case.kind = "append" /\ Truthy(additional_tags)) =>
        LET given == IF IsList(additional_tags) THEN additional_tags.list
                     ELSE <<additional_tags>>
            base == parse_hydrus_tags(query, None)
            top == {i \in 1..Len(result.value) : result.value[i] = Str(SystemInbox)}
        IN  /\ ~result.raised
            /\ ~base.raised
            /\ result.value = base.value \o given
            /\ Cardinality(top) = Cardinality({i \in 1..Len(given) : given[i] = Str(SystemInbox)})
            /\ \A i \in 1..Len(result.value) :
                  IsList(result.value[i]) => ~Mentions(result.value[i], Str(SystemInbox))

C1_Witness ==
    /\ Done
    /\ query = Str(<<"[", "a", "]">>)
    /\ additional_tags = Lst(<<Str(<<"b">>), Str(<<"a">>)>>)
    /\ result = Return(<<Lst(<<Str(<<"a">>)>>), Str(<<"b">>), Str(<<"a">>)>>)

\* C2: a string of comma-separated items, each a plain tag or a bracketed group
\* of k >= 1 plain tags, parses to one term per item in input order: the trimmed
\* tag, or one nested sequence of the k trimmed tags, never flattened.
C2_OneTermPerItem ==
    (Done /\ case.kind = "items") => result = Return(case.terms)

C2_Witness ==
    /\ Done
    /\ case.kind = "items"
    /\ query = Str(<<"a", ",", SP, "[", "b", ",", SP, "c", "]">>)
    /\ Len(result.value) = 2
    /\ IsList(result.value[2])
    /\ Len(result.value[2].list) = 2

\* the term a quoted-family item stands for: the tag, or the span's content
RECURSIVE QuotedTerms(_)
QuotedTerms(items) ==
    IF items = <<>> THEN <<>>
    ELSE <<IF IsStr(Head(items)) THEN Head(items) ELSE Str(Head(items).content)>>
         \o QuotedTerms(Tail(items))

\* C3: a bracket-free string of comma-separated items, each a plain tag or one
\* quoted span, is never split inside a span: one term per item in input order,
\* a span giving its inner content with the commas intact.
C3_NoSplitInsideQuotes ==
    (Done /\ case.kind = "quoted") => result = Return(QuotedTerms(case.terms))

C3_Witness ==
    /\ Done
    /\ case.kind = "quoted"
    /\ query = Str(<<DQ, "a", ",", "b", DQ, ",", SP, "c">>)
    /\ result = Return(<<Str(<<"a", ",", "b">>), Str(<<"c">>)>>)

\* C4: content wrapped in two layers of the same quote character parses to a
\* single term, the content still wrapped in one pair of quotes.
C4_StripsOneLayer ==
    (Done /\ case.kind = "nested") => result = Return(case.terms)

\* every literal of the value, at any depth, is non-empty once trimmed
RECURSIVE NoBlankLiteral(_)
NoBlankLiteral(v) ==
    IF IsList(v) THEN \A i \in 1..Len(v.list) : NoBlankLiteral(v.list[i])
    ELSE IsStr(v) /\ \E i \in 1..Len(v.str) : v.str[i] # SP

\* C5: parsed with no additional tags, every literal of the result of a string
\* query, at the top level and in every nested group, is non-empty after trimming.
C5_NoBlankLiteral ==
    (Done /\ IsStr(query) /\ additional_tags = None) => NoBlankLiteral(Lst(result.value))

\* C6: a string without comma, bracket or quote and with a non-whitespace
\* character parses to the one-element sequence holding the string without its
\* leading and trailing whitespace.
C6_BareTagTrimmed ==
    (/\ Done
     /\ IsStr(query)
     /\ additional_tags = None
     /\ \A i \in 1..Len(query.str) : query.str[i] \notin {",", "[", "]", DQ, SQ}
     /\ \E i \in 1..Len(query.str) : query.str[i] # SP) =>
        LET s == query.str
            ink == {i \in 1..Len(s) : s[i] # SP}
            lo == CHOOSE i \in ink : \A j \in ink : i <= j
            hi == CHOOSE i \in ink : \A j \in ink : j <= i
        IN  result = Return(<<Str(SubSeq(s, lo, hi))>>)

C6_Witness ==
    /\ Done
    /\ query = Str(<<SP, "a", SP, "b">>)
    /\ result = Return(<<Str(<<"a", SP, "b">>)>>)

\* C7: for the empty string, None, "[]" and a value that is neither a string nor
\* a list, the result is exactly the additional tags as a sequence, the empty
\* sequence when none are given.
C7_EmptyQueryGivesAdditional ==
    (/\ Done
     /\ \/ query \in {Str(<<>>), None, Str(<<"[", "]">>)}
        \/ IsOther(query)) =>
        result = Return(IF IsNone(additional_tags) THEN <<>>
                        ELSE IF IsList(additional_tags) THEN additional_tags.list
                        ELSE IF additional_tags = Str(<<>>) THEN <<>>
                        ELSE <<additional_tags>>)

C7_Witness ==
    /\ Done
    /\ query = None
    /\ additional_tags = Str(SystemInbox)
    /\ result = Return(<<Str(SystemInbox)>>)

\* v is a term: a literal, or a sequence of terms
RECURSIVE IsTerm(_)
IsTerm(v) ==
    \/ IsStr(v)
    \/ IsList(v) /\ \A i \in 1..Len(v.list) : IsTerm(v.list[i])

C9_RoundTrip ==
    (Done /\ case.kind = "items" /\ case.sep = <<",", SP>> /\ case.pad = <<>>) =>
        /\ ~result.raised
        /\ result.value = case.terms
        /\ Render(result.value, <<",", SP>>, <<>>) = query.str

C9_Witness ==
    /\ Done
    /\ case.kind = "items"
    /\ case.terms = <<Lst(<<Str(<<"a">>), Str(<<"b">>)>>), Str(<<"a", SP, "b">>)>>
    /\ query = Str(<<"[", "a", ",", SP, "b", "]", ",", SP, "a", SP, "b">>)
    /\ result.value = case.terms

\* C10: in a list query an element that is itself a list contributes exactly one
\* term: the only element of its recursive parse when that has one element, the
\* whole parsed sequence as one nested term otherwise.
C10_NestedListOneTerm ==
    (Done /\ case.kind = "lists") =>
        /\ ~result.raised
        /\ Len(result.value) = Len(query.list)
        /\ \A i \in 1..Len(query.list) :
              IF IsList(query.list[i])
              THEN LET parsed == parse_hydrus_tags(query.list[i], None).value
                   IN  result.value[i] = IF Len(parsed) = 1 THEN parsed[1] ELSE Lst(parsed)
              ELSE result.value[i] = query.list[i]

C10_Witness ==
    /\ Done
    /\ \/ /\ query = Lst(<<Str(<<"a">>), Lst(<<Str(<<"b">>)>>)>>)
          /\ result = Return(<<Str(<<"a">>), Str(<<"b">>)>>)
       \/ /\ query = Lst(<<Str(<<"a">>), Lst(<<Str(<<"b">>), Str(<<"c">>)>>)>>)
          /\ result = Return(<<Str(<<"a">>), Lst(<<Str(<<"b">>), Str(<<"c">>)>>)>>)

\* the literals of a value, at any depth, in order
RECURSIVE Literals(_)
Literals(v) ==
    IF IsStr(v) THEN <<v.str>>
    ELSE IF IsList(v) /\ v.list # <<>>
    THEN Literals(Head(v.list)) \o Literals(Lst(Tail(v.list)))
    ELSE <<>>

NoBracketInLiterals(v) ==
    \A i \in 1..Len(Literals(v)) :
        \A j \in 1..Len(Literals(v)[i]) : Literals(v)[i][j] \notin {"[", "]"}

\* C14: a group written inside a group, as in "[a, [b, c]]", parses to one OR-group
\* whose members are the literal a and a nested OR-group holding b and c; no
\* literal of the result holds a bracket character.
C14_GroupsNest ==
    (Done /\ case.kind = "groups") =>
        /\ result = Return(case.terms)
        /\ NoBracketInLiterals(Lst(result.value))

\* C15: a '[' met outside a group clears the accumulator: for "a [b, c]" the
\* OR-group of the result holds exactly the members b and c.
C15_OpenBracketClearsBuffer ==
    (Done /\ case.kind = "prefixed") =>
        /\ \E i \in 1..Len(result.value) : IsList(result.value[i])
        /\ \A i \in 1..Len(result.value) :
              IsList(result.value[i]) => result.value[i] = case.terms[1]

\* a string, or a sequence of strings
IsFlatTerm(v) ==
    \/ IsStr(v)
    \/ IsList(v) /\ \A i \in 1..Len(v.list) : IsStr(v.list[i])

\* C16: every term of the result of a string query is a string or a sequence of
\* strings: the result is never nested more than one level deep.
C16_StringResultOneLevel ==
    (Done /\ IsStr(query)) =>
        \A i \in 1..Len(result.value) : IsFlatTerm(result.value[i])

\* number of bracket characters in a sequence of strings
RECURSIVE BracketCount(_)
BracketCount(strs) ==
    IF strs = <<>> THEN 0
    ELSE Cardinality({j \in 1..Len(Head(strs)) : Head(strs)[j] \in {"[", "]"}})
         + BracketCount(Tail(strs))

\* C17: a parsed string is scanned in bracket mode exactly if it holds at least
\* one '[' and at least one ']'; with only one of the two it is parsed in flat
\* mode, every bracket stays inside a literal and no term is a nested sequence.
C17_ModeChoice ==
    (Done /\ IsParsedString) =>
        LET s == query.str
            both == (\E i \in 1..Len(s) : s[i] = "[") /\ (\E i \in 1..Len(s) : s[i] = "]")
        IN  /\ pc = "return273" <=> both
            /\ pc = "return337" <=> ~both
            /\ ~both =>
                  /\ \A i \in 1..Len(result.value) : IsStr(result.value[i])
                  /\ BracketCount(Literals(Lst(result.value))) = BracketCount(<<s>>)

RECURSIVE Ink(_)
Ink(s) ==
    IF s = <<>> THEN <<>>
    ELSE (IF Head(s) \in {SP, ",", DQ, SQ} THEN <<>> ELSE <<Head(s)>>) \o Ink(Tail(s))

RECURSIVE Flatten(_)
Flatten(strs) == IF strs = <<>> THEN <<>> ELSE Head(strs) \o Flatten(Tail(strs))

\* C19: in flat mode an opening quote keeps what the buffer already holds: every
\* character of a bracket-free string that is no whitespace, comma or quote
\* appears in the terms of the result, in input order.
C19_OpeningQuoteKeepsBuffer ==
    (Done /\ pc = "return337" /\ additional_tags = None
          /\ \A i \in 1..Len(query.str) : query.str[i] \notin {"[", "]"}) =>
        Ink(Flatten(Literals(Lst(result.value)))) = Ink(query.str)

\* C20: every term of the result of a list query, whatever the depth of the
\* list, is a string or a sequence of strings.
C20_ListResultOneLevel ==
    (Done /\ IsList(query)) =>
        \A i \in 1..Len(result.value) : IsFlatTerm(result.value[i])

\* a handler has returned
Answered == step = "done"

\* C12: in hydrus_get_tags with content_type "query" the tags of the search
\* request are the parse of the content alone followed by the one term
\* "system:limit is <limit>" (1000 for an empty limit), so the limit term is the
\* last top-level term whatever the content is; no call makes a second search.
C12_LimitTermLast ==
    /\ Len(searches) <= 1
    /\ (request.tool = "hydrus_get_tags" /\ searches # <<>>) =>
          LET alone == parse_hydrus_tags(Str(request.text), None)
              shown == IF request.limit = <<>> THEN <<"1", "0", "0", "0">> ELSE request.limit
              tags == searches[1].tags
          IN  /\ request.content_type = "query"
              /\ ~alone.raised
              /\ tags = alone.value \o <<Str(SystemLimitIs \o shown)>>
              /\ tags[Len(tags)] = Str(SystemLimitIs \o shown)

\* a malformed content with an empty limit has been searched and answered
C12_Witness ==
    /\ Answered
    /\ request.tool = "hydrus_get_tags"
    /\ request.text = UnclosedGroup
    /\ request.limit = <<>>
    /\ Len(searches) = 1
    /\ Len(searches[1].tags) > 1
    /\ file_ids.kind = "ids"

\* trs is a string of decimal digits, surrounding blanks aside
NumericTrs == isdigit(strip(request.trs))

\* C13: in hydrus_query with a numeric trs and a search that returned file ids:
\* more ids than trs gives the total count and the first 10 ids at most; 1 to
\* trs ids gives every id in the order returned; no id gives an error object
\* without file ids.
C13_QueryThreshold ==
    (Answered /\ request.tool = "hydrus_query" /\ file_ids.kind = "ids" /\ NumericTrs) =>
        LET ids == file_ids.ids
            n == Len(ids)
            trs == PyInt(request.trs).value
            shown == response.file_ids
        IN  /\ n > trs =>
                 /\ response.kind = "found"
                 /\ response.count = n
                 /\ Len(shown) <= 10
                 /\ Len(shown) = IF n < 10 THEN n ELSE 10
                 /\ \A i \in 1..Len(shown) : shown[i] = ids[i]
            /\ (1 <= n /\ n <= trs) =>
                 /\ response.kind = "file_ids"
                 /\ response.error = ""
                 /\ shown = ids
            /\ n = 0 =>
                 /\ response.kind = "error"
                 /\ response.error # ""
                 /\ shown = <<>>

\* eleven ids came back in descending order and trs was at most 10
C13_Witness ==
    /\ Answered
    /\ request.tool = "hydrus_query"
    /\ NumericTrs
    /\ file_ids.kind = "ids"
    /\ Len(file_ids.ids) = 11
    /\ file_ids.ids[1] = 11
    /\ response.kind = "found"
    /\ Len(response.file_ids) = 10

\* C11: two calls whose steps are interleaved in any order share no state: a
\* call that has returned has returned what the same arguments give when the
\* function runs alone, and no step of either call changes the query or the
\* additional_tags passed to any call.
C11_NoSharedState ==
    /\ [](\A t \in DOMAIN calls :
             calls[t].pc = "done" =>
                calls[t].result = parse_hydrus_tags(calls[t].query, calls[t].additional_tags))
    /\ [][\A t \in DOMAIN calls :
             /\ calls'[t].query = calls[t].query
             /\ calls'[t].additional_tags = calls[t].additional_tags]_vars

\* both calls have returned, each took steps while the other was in the middle
\* of its run, one in bracket mode with a recursive call and shared
\* additional tags
C11_Witness ==
    /\ DOMAIN calls = Threads
    /\ \A t \in Threads : calls[t].pc = "done" /\ calls[t].overlapped
    /\ calls[1].query = Str(<<"[", "a", "]">>)
    /\ calls[2].query = Str(GroupThenOpen)
    /\ Truthy(calls[1].additional_tags)
    /\ calls[2].result = Return(<<Lst(<<Str(<<"a">>)>>), Lst(<<Str(<<"b">>), Str(<<"c">>)>>),
                                  Str(SystemInbox)>>)

\* the frames of call c that scan a string
StringFrames(c) == {k \in 1..Len(c.stack) : IsStr(c.stack[k].query)}

\* C21: a call on a string terminates; every recursive call made while a string
\* is scanned is made on a strictly shorter string, the "[" that opened the
\* group is not in the recursed buffer (at a "]" the buffer is shorter than the
\* text scanned before it), and the number of nested recursive calls never
\* exceeds the length of the input.
C21_Terminates ==
    /\ [](\A t \in DOMAIN calls :
             IsStr(calls[t].query) =>
                LET c == calls[t]
                IN  /\ \A k \in 2..Len(c.stack) :
                          /\ IsStr(c.stack[k].query)
                          /\ Len(c.stack[k].query.str) < Len(c.stack[k - 1].query.str)
                          /\ c.stack[k - 1].phase = "bracket" =>
                                Len(c.stack[k].query.str) <= c.stack[k - 1].i - 2
                    /\ Len(c.stack) - 1 <= Len(c.query.str))
    /\ <>(\A t \in DOMAIN calls : calls[t].pc = "done")

\* a call on "]]][[[" is three recursive calls deep
C21_Witness ==
    /\ DOMAIN calls = {1}
    /\ calls[1].query = Str(OpenGroups(3))
    /\ Len(calls[1].stack) = 4
    /\ calls[1].stack[4].query = Str(<<"]", "]", "]">>)

\* C24: a quoted literal holding a comma next to an OR-group, as in
\* '"a, b", [c, d]', gives one term for the literal with its comma intact and
\* one OR-group, and no literal of the result holds a quote character.
C24_QuotedCommaWithGroup ==
    (Done /\ case.kind = "quotedgroup") =>
        /\ result = Return(case.terms)
        /\ \A i \in 1..Len(Literals(Lst(result.value))) :
              ~Contains(Literals(Lst(result.value))[i], DQ)
              /\ ~Contains(Literals(Lst(result.value))[i], SQ)

\* an empty sequence occurs in v as a term, at any depth
RECURSIVE HasEmptyGroup(_)
HasEmptyGroup(v) ==
    /\ IsList(v)
    /\ \E i \in 1..Len(v.list) : v.list[i] = Lst(<<>>) \/ HasEmptyGroup(v.list[i])

\* C25: for a query string parsed without additional tags, no OR-group of the
\* result is an empty sequence: brackets around nothing or around whitespace
\* contribute no term.
C25_NoEmptyGroup ==
    (Done /\ IsStr(query) /\ IsNone(additional_tags)) => ~HasEmptyGroup(Lst(result.value))

\* C26: the parse of the one-element list [s] equals the parse of the string s.
C26_WrappingKeepsResult ==
    (Done /\ case.kind = "wrapped") =>
        result = parse_hydrus_tags(case.terms[1], None)

\* C27: in hydrus_query a trs that is not a string of digits falls back to the
\* threshold 100: the search is made and its file ids are answered under that
\* threshold, never the error "Invalid numeric parameter".
C27_TrsFallback ==
    (Answered /\ request.tool = "hydrus_query" /\ ~NumericTrs /\ file_ids.kind = "ids") =>
        LET n == Len(file_ids.ids)
        IN  /\ Len(searches) = 1
            /\ response.error # "Invalid numeric parameter"
            /\ n > 100 => response.kind = "found" /\ response.count = n
            /\ (1 <= n /\ n <= 100) =>
                  response.kind = "file_ids" /\ response.file_ids = file_ids.ids
            /\ n = 0 => response.kind = "error"

\* the page dictionaries of a page list in depth-first pre-order
RECURSIVE PreOrder(_)
PreOrder(pages_list) ==
    IF pages_list = <<>> THEN <<>>
    ELSE LET head == Head(pages_list)
         IN  (IF ~IsDict(head) THEN <<>>
              ELSE <<head>> \o (IF head.pages = None THEN <<>> ELSE PreOrder(head.pages.list)))
             \o PreOrder(Tail(pages_list))

\* the page has a name or a title equal to tab_name, ignoring case
NamedLike(page, tab_name) ==
    \/ page.name # None /\ lower(page.name.str) = lower(tab_name)
    \/ page.title # None /\ lower(page.title.str) = lower(tab_name)

\* C22: find_page_by_name returns the first page dictionary in depth-first
\* pre-order that has a name or a title equal to tab_name ignoring case, entries
\* that are no dictionaries being skipped, and None when there is no such page.
C22_FirstPageInPreOrder ==
    (invocation.fn = "find_page_by_name" /\ locals.at = "done") =>
        LET order == PreOrder(invocation.pages_list)
            hits == {i \in 1..Len(order) : NamedLike(order[i], invocation.tab_name)}
        IN  /\ ~outcome.raised
            /\ outcome.value = IF hits = {} THEN None
                               ELSE order[CHOOSE i \in hits : \A j \in hits : i <= j]

\* the records of the entries of l that are lists of three fields or more
RECURSIVE RecordsOf(_)
RecordsOf(l) ==
    IF l = <<>> THEN <<>>
    ELSE (IF IsList(Head(l)) /\ Len(Head(l).list) >= 3
          THEN <<[name |-> Head(l).list[1], url |-> Head(l).list[2],
                  apikey |-> Head(l).list[3],
                  description |-> IF Len(Head(l).list) > 3 THEN Head(l).list[4]
                                  ELSE Str(<<>>)]>>
          ELSE <<>>)
         \o RecordsOf(Tail(l))

\* C23: load_clients_from_secret never fails; whatever the configuration it
\* returns the records (name, url, apikey, description) of the entries that have
\* three fields or more, in configuration order, entries with fewer fields and
\* scalars being skipped, and the empty list for a configuration that is no list.
C23_LoadNeverFails ==
    (invocation.fn = "load_clients_from_secret" /\ locals.at = "done") =>
        LET config == invocation.config
        IN  /\ ~outcome.raised
            /\ outcome.value =
                  IF config.kind = "json" /\ IsList(config.json)
                  THEN RecordsOf(config.json.list)
                  ELSE <<>>

\* C28: get_tags returns exactly one [file_id, tags] entry for every input file
\* id, in input order and without duplicates, for any number of file ids and
\* any number of top-level keys of the metadata response, whether a batch
\* request succeeds or fails; the files of a failed batch get an error entry
\* each, the others their tags.
C28_OneEntryPerFile ==
    (invocation.fn = "get_tags" /\ locals.at = "done") =>
        LET ids == invocation.file_ids
            MyDict == outcome.value
        IN  /\ ~outcome.raised
            /\ Len(MyDict) = Len(ids)
            /\ \A k \in 1..Len(MyDict) :
                  /\ MyDict[k].file_id = ids[k]
                  /\ MyDict[k].tags =
                        IF ((k - 1) \div batch_size) * batch_size \in locals.failed
                        THEN <<RequestError>> ELSE FileTags(ids[k])

Carriers(ids, tag) ==
    {j \in 1..Len(ids) : \E k \in 1..Len(FileTags(ids[j])) : FileTags(ids[j])[k] = tag}

Carried(ids) ==
    UNION {{FileTags(ids[j])[k] : k \in 1..Len(FileTags(ids[j]))} : j \in 1..Len(ids)}

\* C29: when every metadata request succeeds, get_tags_summary returns one
\* [tag, count] pair per distinct tag carried by the input files, count being
\* the number of input files that carry the tag, no pair for a text that no
\* file carries, in non-increasing order of count, and at most result_limit
\* pairs when result_limit is a positive integer.
C29_SummaryCounts ==
    (invocation.fn = "get_tags_summary" /\ locals.at = "done" /\ locals.failed = {}) =>
        LET ids == invocation.file_ids
            pairs == outcome.value
            result_limit == invocation.result_limit
            cut == result_limit.given /\ result_limit.value > 0
                   /\ Cardinality(Carried(ids)) > result_limit.value
        IN  /\ ~outcome.raised
            /\ \A k \in 1..Len(pairs) :
                  /\ pairs[k].tag \in Carried(ids)
                  /\ pairs[k].count = Cardinality(Carriers(ids, pairs[k].tag))
            /\ \A j, k \in 1..Len(pairs) : pairs[j].tag = pairs[k].tag => j = k
            /\ \A k \in 2..Len(pairs) : pairs[k - 1].count >= pairs[k].count
            /\ Len(pairs) = IF cut THEN result_limit.value ELSE Cardinality(Carried(ids))

====
